---- MODULE Spec2Model ----
(***************************************************************************)
(* Motion sequencer of the PocketCube solver (class Servos) on top of the  *)
(* PCA9685 PWM board.  Every statement of Servos.cpp is one step; pc is    *)
(* the source line of the next statement of the running operation.         *)
(* SerialCom::receive and the serial port are modelled the same way and    *)
(* run under their own specification, SpecSerial.                          *)
(***************************************************************************)
EXTENDS Integers, Sequences, FiniteSets, TLC

(***************************************************************************)
(* Bounds of the model                                                     *)
(***************************************************************************)
\* rotateTo is tried with every multiple of 45 in -45*MinArgUnits..45*MaxArgUnits
MinArgUnits == 2
MaxArgUnits == 8
\* number of most recent completed calls kept in hist
HistLen == 2
\* number of consecutive calls of the same rotation kept in run
RunLen == 4
\* number of bytes the serial port receives
MaxBytes == 34
\* number of calls of SerialCom::receive
MaxCalls == 2
\* the bytes the serial port receives, over and over
ByteCycle == <<65, 200, 10>>

(***************************************************************************)
(* Config.h                                                                *)
(***************************************************************************)
TURN_SERVO_CHANNEL == 0
ROTATE_SERVO_CHANNEL == 1
TURN_SERVO_MIN == 100
TURN_SERVO_MAX == 380
ROTATE_SERVO_0 == 102
ROTATE_SERVO_90 == 247
ROTATE_SERVO_180 == 397
ROTATE_SERVO_270 == 533
TURN_DELAY_MS == 550
ROTATE_DELAY_MS == 650

\* the table with the 90-degree entry pasted twice
rotationTicks_Duplicate == <<ROTATE_SERVO_0, ROTATE_SERVO_90, ROTATE_SERVO_90, ROTATE_SERVO_270>>

\* int rotationTicks[] (0-based in the source, 1-based here)
rotationTicks == <<ROTATE_SERVO_0, ROTATE_SERVO_90, ROTATE_SERVO_180, ROTATE_SERVO_270>>

\* value of a channel of the board that no setPWM has written yet
NoTick == -1

Channels == {TURN_SERVO_CHANNEL, ROTATE_SERVO_CHANNEL}

\* the arguments rotateTo is called with
ArgSet == {45 * k : k \in -MinArgUnits..MaxArgUnits}

VARIABLES
    rotationAngleDegree,  \* Servos::rotationAngleDegree
    pwm,                  \* per channel, the off-tick last written by setPWM
    pc,                   \* "idle", or the statement the running operation is at
    angleDegree,          \* parameter of the running rotateTo
    numberSteps90,        \* local of the running rotateTo
    ret,                  \* where the running rotateTo returns to
    cur,                  \* record of the running call
    hist,                 \* records of the last HistLen completed calls
    initialized,          \* initPositions has returned at least once
    lastWrite,            \* the most recent setPWM and the delay completed since
    run,                  \* the last RunLen calls, while they are the same rotateLeft or rotateRight
    serialIn,             \* Serial: the received bytes not read yet
    arrived,              \* Serial: number of bytes received since power-on
    readBuffer,           \* SerialCom::receive: static char readBuffer[32]
    bufferIndex,          \* SerialCom::receive: local bufferIndex
    count,                \* SerialCom::receive: *count
    rpc,                  \* SerialCom::receive: "idle", or the statement it is at
    rcall                 \* the running or last receive call: bytes pending at the call, indexes written

servoVars == <<rotationAngleDegree, pwm, pc, angleDegree, numberSteps90, ret, cur, hist, initialized,
               lastWrite, run>>

serialVars == <<serialIn, arrived, readBuffer, bufferIndex, count, rpc, rcall>>

vars == <<servoVars, serialVars>>

(***************************************************************************)
(* Helpers                                                                 *)
(***************************************************************************)
\* Arduino's abs macro
abs(x) == IF x > 0 THEN x ELSE -x

\* Adafruit_PWMServoDriver::setPWM(num, on, off): the channel holds the signal
setPWM(p, num, on, off) == [p EXCEPT ![num] = off]

\* events a call appends to its record
EvSetPWM(num, on, off) == <<"setPWM", num, on, off>>
EvDelay(ms) == <<"delay", ms>>
EvAssign(a) == <<"assign", a>>

\* record of a call that starts now
BeginCall(op, arg) ==
    [op |-> op, arg |-> arg,
     angle0 |-> rotationAngleDegree, pwm0 |-> pwm,
     angle1 |-> rotationAngleDegree, pwm1 |-> pwm,
     events |-> <<>>]

\* no call is running
NoCall == [op |-> "none", arg |-> 0, angle0 |-> 0, pwm0 |-> <<>>, angle1 |-> 0, pwm1 |-> <<>>, events |-> <<>>]

Log(c, ev) == [c EXCEPT !.events = Append(@, ev)]

\* no setPWM has been made yet
NoWrite == [written |-> FALSE, ch |-> TURN_SERVO_CHANNEL, changed |-> FALSE, first |-> FALSE, waited |-> 0]

\* a setPWM(num, 0, off) is made
NoteWrite(num, off) ==
    lastWrite' = [written |-> TRUE, ch |-> num, changed |-> (pwm[num] # off),
                 first |-> (pwm[num] = NoTick), waited |-> 0]

\* a delay(ms) has run to completion
NoteDelay(ms) ==
    lastWrite' = IF lastWrite.written THEN [lastWrite EXCEPT !.waited = @ + ms] ELSE lastWrite

\* the consecutive calls of one of rotateLeft, rotateRight, the last RunLen of them
NoteRun(r, c) ==
    IF c.op \notin {"rotateLeft", "rotateRight"} THEN <<>>
    ELSE IF r # <<>> /\ r[1].op # c.op THEN <<c>>
    ELSE IF Len(r) >= RunLen THEN Append(Tail(r), c)
    ELSE Append(r, c)

\* keep the last HistLen records
Trim(h) == IF Len(h) > HistLen THEN SubSeq(h, Len(h) - HistLen + 1, Len(h)) ELSE h

(***************************************************************************)
(* Servos::rotateTo, lines 101-110                                         *)
(***************************************************************************)
\* a guard that checks the range only
IsValidAngle_Range(a) == (a >= 0) /\ (a <= 270)

\* the guard of line 102
IsValidAngle(a) == (a = 0) \/ (a = 90) \/ (a = 180) \/ (a = 270)

\* the circular distance instead of the linear one
NumberSteps90_Circular(current, target) ==
    IF abs(current - target) \div 90 = 3 THEN 1 ELSE abs(current - target) \div 90

\* a wait of at least one step
NumberSteps90_AtLeastOne(current, target) ==
    IF current = target THEN 1 ELSE abs(current - target) \div 90

\* line 103
NumberSteps90(current, target) == abs(current - target) \div 90

\* the angle itself written as the tick
PcaTicks_Raw(a) == a

\* line 104
PcaTicks(a) == rotationTicks[(a \div 90) + 1]

\* line 102: the if
rotateTo_102 ==
    /\ pc = "rotateTo_102"
    /\ pc' = IF IsValidAngle(angleDegree) THEN "rotateTo_106" ELSE ret
    /\ UNCHANGED <<rotationAngleDegree, pwm, angleDegree, numberSteps90, ret, cur, hist, initialized>>
    /\ UNCHANGED lastWrite
    /\ UNCHANGED run
    /\ UNCHANGED serialVars

\* lines 103-106 with the assignment of line 108 made before the wait
rotateTo_106_AssignEarly ==
    /\ pc = "rotateTo_106"
    /\ numberSteps90' = NumberSteps90(rotationAngleDegree, angleDegree)
    /\ pwm' = setPWM(pwm, ROTATE_SERVO_CHANNEL, 0, PcaTicks(angleDegree))
    /\ cur' = Log(cur, EvSetPWM(ROTATE_SERVO_CHANNEL, 0, PcaTicks(angleDegree)))
    /\ rotationAngleDegree' = angleDegree
    /\ pc' = "rotateTo_107"
    /\ UNCHANGED <<angleDegree, ret, hist, initialized>>
    /\ NoteWrite(ROTATE_SERVO_CHANNEL, PcaTicks(angleDegree))
    /\ UNCHANGED run
    /\ UNCHANGED serialVars

\* lines 103-106: the locals and pwm.setPWM(ROTATE_SERVO_CHANNEL, 0, pcaTicks)
rotateTo_106 ==
    /\ pc = "rotateTo_106"
    /\ numberSteps90' = NumberSteps90(rotationAngleDegree, angleDegree)
    /\ pwm' = setPWM(pwm, ROTATE_SERVO_CHANNEL, 0, PcaTicks(angleDegree))
    /\ cur' = Log(cur, EvSetPWM(ROTATE_SERVO_CHANNEL, 0, PcaTicks(angleDegree)))
    /\ pc' = "rotateTo_107"
    /\ UNCHANGED <<rotationAngleDegree, angleDegree, ret, hist, initialized>>
    /\ NoteWrite(ROTATE_SERVO_CHANNEL, PcaTicks(angleDegree))
    /\ UNCHANGED run
    /\ UNCHANGED serialVars

\* line 107: delay(numberSteps90 * ROTATE_DELAY_MS)
rotateTo_107 ==
    /\ pc = "rotateTo_107"
    /\ cur' = Log(cur, EvDelay(numberSteps90 * ROTATE_DELAY_MS))
    /\ pc' = "rotateTo_108"
    /\ UNCHANGED <<rotationAngleDegree, pwm, angleDegree, numberSteps90, ret, hist, initialized>>
    /\ NoteDelay(numberSteps90 * ROTATE_DELAY_MS)
    /\ UNCHANGED run
    /\ UNCHANGED serialVars

\* rotateTo without the assignment of line 108
rotateTo_108_Skip ==
    /\ pc = "rotateTo_108"
    /\ pc' = ret
    /\ UNCHANGED <<rotationAngleDegree, pwm, angleDegree, numberSteps90, ret, cur, hist, initialized>>
    /\ UNCHANGED lastWrite
    /\ UNCHANGED run
    /\ UNCHANGED serialVars

\* line 108: rotationAngleDegree = angleDegree
rotateTo_108 ==
    /\ pc = "rotateTo_108"
    /\ rotationAngleDegree' = angleDegree
    /\ cur' = Log(cur, EvAssign(angleDegree))
    /\ pc' = ret
    /\ UNCHANGED <<pwm, angleDegree, numberSteps90, ret, hist, initialized>>
    /\ UNCHANGED lastWrite
    /\ UNCHANGED run
    /\ UNCHANGED serialVars

\* a call of rotateTo(a) by the command dispatcher
rotateTo ==
    /\ pc = "idle"
    /\ \E a \in ArgSet :
        /\ cur' = BeginCall("rotateTo", a)
        /\ angleDegree' = a
    /\ ret' = "return"
    /\ pc' = "rotateTo_102"
    /\ UNCHANGED <<rotationAngleDegree, pwm, numberSteps90, hist, initialized>>
    /\ UNCHANGED lastWrite
    /\ UNCHANGED run
    /\ UNCHANGED serialVars

(***************************************************************************)
(* Servos::rotateLeft, lines 81-86, and Servos::rotateRight, lines 90-95   *)
(***************************************************************************)
\* off-by-one comparisons that lose the wraparound
rotateLeftTarget_NoWrap(current) == IF current >= 0 THEN current - 90 ELSE 270

rotateRightTarget_NoWrap(current) == IF current <= 270 THEN current + 90 ELSE 0

\* lines 82-85
rotateLeftTarget(current) == IF current > 0 THEN current - 90 ELSE 270

\* lines 91-94
rotateRightTarget(current) == IF current < 270 THEN current + 90 ELSE 0

rotateLeft ==
    /\ pc = "idle"
    /\ cur' = BeginCall("rotateLeft", 0)
    /\ angleDegree' = rotateLeftTarget(rotationAngleDegree)
    /\ ret' = "return"
    /\ pc' = "rotateTo_102"
    /\ UNCHANGED <<rotationAngleDegree, pwm, numberSteps90, hist, initialized>>
    /\ UNCHANGED lastWrite
    /\ UNCHANGED run
    /\ UNCHANGED serialVars

rotateRight ==
    /\ pc = "idle"
    /\ cur' = BeginCall("rotateRight", 0)
    /\ angleDegree' = rotateRightTarget(rotationAngleDegree)
    /\ ret' = "return"
    /\ pc' = "rotateTo_102"
    /\ UNCHANGED <<rotationAngleDegree, pwm, numberSteps90, hist, initialized>>
    /\ UNCHANGED lastWrite
    /\ UNCHANGED run
    /\ UNCHANGED serialVars

(***************************************************************************)
(* Servos::initPositions, lines 65-73                                      *)
(***************************************************************************)
\* initPositions driving the turn servo to the push position
initPositions_Push ==
    /\ pc = "idle"
    /\ pwm' = setPWM(pwm, TURN_SERVO_CHANNEL, 0, TURN_SERVO_MAX)
    /\ cur' = Log(BeginCall("initPositions", 0), EvSetPWM(TURN_SERVO_CHANNEL, 0, TURN_SERVO_MAX))
    /\ pc' = "initPositions_68"
    /\ UNCHANGED <<rotationAngleDegree, angleDegree, numberSteps90, ret, hist, initialized>>
    /\ NoteWrite(TURN_SERVO_CHANNEL, TURN_SERVO_MAX)
    /\ UNCHANGED run
    /\ UNCHANGED serialVars

\* the call and line 67: pwm.setPWM(TURN_SERVO_CHANNEL, 0, TURN_SERVO_MIN)
initPositions ==
    /\ pc = "idle"
    /\ pwm' = setPWM(pwm, TURN_SERVO_CHANNEL, 0, TURN_SERVO_MIN)
    /\ cur' = Log(BeginCall("initPositions", 0), EvSetPWM(TURN_SERVO_CHANNEL, 0, TURN_SERVO_MIN))
    /\ pc' = "initPositions_68"
    /\ UNCHANGED <<rotationAngleDegree, angleDegree, numberSteps90, ret, hist, initialized>>
    /\ NoteWrite(TURN_SERVO_CHANNEL, TURN_SERVO_MIN)
    /\ UNCHANGED run
    /\ UNCHANGED serialVars

\* line 68: delay(TURN_DELAY_MS), then line 71 enters rotateTo(0)
initPositions_68 ==
    /\ pc = "initPositions_68"
    /\ cur' = Log(cur, EvDelay(TURN_DELAY_MS))
    /\ angleDegree' = 0
    /\ ret' = "initPositions_72"
    /\ pc' = "rotateTo_102"
    /\ UNCHANGED <<rotationAngleDegree, pwm, numberSteps90, hist, initialized>>
    /\ NoteDelay(TURN_DELAY_MS)
    /\ UNCHANGED run
    /\ UNCHANGED serialVars

\* line 72 waiting one ROTATE_DELAY_MS only
initPositions_72_Single ==
    /\ pc = "initPositions_72"
    /\ cur' = Log(cur, EvDelay(ROTATE_DELAY_MS))
    /\ pc' = "return"
    /\ UNCHANGED <<rotationAngleDegree, pwm, angleDegree, numberSteps90, ret, hist, initialized>>
    /\ NoteDelay(ROTATE_DELAY_MS)
    /\ UNCHANGED run
    /\ UNCHANGED serialVars

\* line 72: delay(2 * ROTATE_DELAY_MS)
initPositions_72 ==
    /\ pc = "initPositions_72"
    /\ cur' = Log(cur, EvDelay(2 * ROTATE_DELAY_MS))
    /\ pc' = "return"
    /\ UNCHANGED <<rotationAngleDegree, pwm, angleDegree, numberSteps90, ret, hist, initialized>>
    /\ NoteDelay(2 * ROTATE_DELAY_MS)
    /\ UNCHANGED run
    /\ UNCHANGED serialVars

(***************************************************************************)
(* Servos::turnCube, lines 122-127                                         *)
(***************************************************************************)
\* the call and line 123: pwm.setPWM(TURN_SERVO_CHANNEL, 0, TURN_SERVO_MAX)
turnCube ==
    /\ pc = "idle"
    /\ pwm' = setPWM(pwm, TURN_SERVO_CHANNEL, 0, TURN_SERVO_MAX)
    /\ cur' = Log(BeginCall("turnCube", 0), EvSetPWM(TURN_SERVO_CHANNEL, 0, TURN_SERVO_MAX))
    /\ pc' = "turnCube_124"
    /\ UNCHANGED <<rotationAngleDegree, angleDegree, numberSteps90, ret, hist, initialized>>
    /\ NoteWrite(TURN_SERVO_CHANNEL, TURN_SERVO_MAX)
    /\ UNCHANGED run
    /\ UNCHANGED serialVars

\* line 124 left out: no wait between push and hold
turnCube_124_NoDelay ==
    /\ pc = "turnCube_124"
    /\ pc' = "turnCube_125"
    /\ UNCHANGED <<rotationAngleDegree, pwm, angleDegree, numberSteps90, ret, cur, hist, initialized>>
    /\ UNCHANGED lastWrite
    /\ UNCHANGED run
    /\ UNCHANGED serialVars

\* line 124: delay(TURN_DELAY_MS)
turnCube_124 ==
    /\ pc = "turnCube_124"
    /\ cur' = Log(cur, EvDelay(TURN_DELAY_MS))
    /\ pc' = "turnCube_125"
    /\ UNCHANGED <<rotationAngleDegree, pwm, angleDegree, numberSteps90, ret, hist, initialized>>
    /\ NoteDelay(TURN_DELAY_MS)
    /\ UNCHANGED run
    /\ UNCHANGED serialVars

\* line 125 writing the rotate channel
turnCube_125_WrongChannel ==
    /\ pc = "turnCube_125"
    /\ pwm' = setPWM(pwm, ROTATE_SERVO_CHANNEL, 0, TURN_SERVO_MIN)
    /\ cur' = Log(cur, EvSetPWM(ROTATE_SERVO_CHANNEL, 0, TURN_SERVO_MIN))
    /\ pc' = "turnCube_126"
    /\ UNCHANGED <<rotationAngleDegree, angleDegree, numberSteps90, ret, hist, initialized>>
    /\ NoteWrite(ROTATE_SERVO_CHANNEL, TURN_SERVO_MIN)
    /\ UNCHANGED run
    /\ UNCHANGED serialVars

\* line 125: pwm.setPWM(TURN_SERVO_CHANNEL, 0, TURN_SERVO_MIN)
turnCube_125 ==
    /\ pc = "turnCube_125"
    /\ pwm' = setPWM(pwm, TURN_SERVO_CHANNEL, 0, TURN_SERVO_MIN)
    /\ cur' = Log(cur, EvSetPWM(TURN_SERVO_CHANNEL, 0, TURN_SERVO_MIN))
    /\ pc' = "turnCube_126"
    /\ UNCHANGED <<rotationAngleDegree, angleDegree, numberSteps90, ret, hist, initialized>>
    /\ NoteWrite(TURN_SERVO_CHANNEL, TURN_SERVO_MIN)
    /\ UNCHANGED run
    /\ UNCHANGED serialVars

\* line 126 left out: no wait after the return to hold
turnCube_126_NoDelay ==
    /\ pc = "turnCube_126"
    /\ pc' = "return"
    /\ UNCHANGED <<rotationAngleDegree, pwm, angleDegree, numberSteps90, ret, cur, hist, initialized>>
    /\ UNCHANGED lastWrite
    /\ UNCHANGED run
    /\ UNCHANGED serialVars

\* line 126: delay(TURN_DELAY_MS)
turnCube_126 ==
    /\ pc = "turnCube_126"
    /\ cur' = Log(cur, EvDelay(TURN_DELAY_MS))
    /\ pc' = "return"
    /\ UNCHANGED <<rotationAngleDegree, pwm, angleDegree, numberSteps90, ret, hist, initialized>>
    /\ NoteDelay(TURN_DELAY_MS)
    /\ UNCHANGED run
    /\ UNCHANGED serialVars

(***************************************************************************)
(* The running operation returns to the command dispatcher                 *)
(***************************************************************************)
Return ==
    /\ pc = "return"
    /\ hist' = Trim(Append(hist, [cur EXCEPT !.angle1 = rotationAngleDegree, !.pwm1 = pwm]))
    /\ initialized' = (initialized \/ cur.op = "initPositions")
    /\ pc' = "idle"
    \* the parameters and locals of the call are gone
    /\ angleDegree' = 0
    /\ numberSteps90' = 0
    /\ ret' = "return"
    /\ cur' = NoCall
    /\ UNCHANGED <<rotationAngleDegree, pwm>>
    /\ UNCHANGED lastWrite
    /\ run' = NoteRun(run, [cur EXCEPT !.angle1 = rotationAngleDegree, !.pwm1 = pwm])
    /\ UNCHANGED serialVars

(***************************************************************************)
(* SerialCom::receive, SerialCom.cpp lines 23-35, and the Serial port       *)
(***************************************************************************)
\* int bufferSize = 32, the length of readBuffer
bufferSize == 32

\* the k-th byte the port receives after power-on
Byte(k) == ByteCycle[(k % Len(ByteCycle)) + 1]

\* the cast (char) of line 29: the low 8 bits, as a signed char
ToChar(b) == IF b % 256 >= 128 THEN (b % 256) - 256 ELSE b % 256

\* Serial.read(): the oldest byte not read yet, or -1
SerialRead(q) == IF q = <<>> THEN -1 ELSE Head(q)

\* the port receives a byte, between calls or while receive is running. Only
\* the test of line 28 looks at the port, so a byte that arrives anywhere
\* between two tests is taken to arrive just before the later one.
SerialArrive ==
    /\ rpc \in {"idle", "receive_28"}
    /\ arrived < MaxBytes
    /\ serialIn' = Append(serialIn, Byte(arrived + 1))
    /\ arrived' = arrived + 1
    /\ UNCHANGED <<readBuffer, bufferIndex, count, rpc, rcall>>
    /\ UNCHANGED servoVars

\* the call: int bufferIndex = 0
receive ==
    /\ rpc = "idle"
    /\ rcall.calls < MaxCalls
    /\ bufferIndex' = 0
    /\ rcall' = [calls |-> rcall.calls + 1, n |-> Len(serialIn), wrote |-> {}, done |-> FALSE]
    /\ rpc' = "receive_28"
    /\ UNCHANGED <<serialIn, arrived, readBuffer, count>>
    /\ UNCHANGED servoVars

\* a loop test that stops when the buffer is one past full
receive_28_OffByOne ==
    /\ rpc = "receive_28"
    /\ rpc' = IF (Len(serialIn) > 0) /\ (bufferIndex <= bufferSize) THEN "receive_29" ELSE "receive_32"
    /\ UNCHANGED <<serialIn, arrived, readBuffer, bufferIndex, count, rcall>>
    /\ UNCHANGED servoVars

\* line 28: while ((Serial.available() > 0) && (bufferIndex < bufferSize))
receive_28 ==
    /\ rpc = "receive_28"
    /\ rpc' = IF (Len(serialIn) > 0) /\ (bufferIndex < bufferSize) THEN "receive_29" ELSE "receive_32"
    /\ UNCHANGED <<serialIn, arrived, readBuffer, bufferIndex, count, rcall>>
    /\ UNCHANGED servoVars

\* line 29: readBuffer[bufferIndex++] = (char)Serial.read()
receive_29 ==
    /\ rpc = "receive_29"
    /\ readBuffer' = IF bufferIndex \in DOMAIN readBuffer
                     THEN [readBuffer EXCEPT ![bufferIndex] = ToChar(SerialRead(serialIn))]
                     ELSE readBuffer
    /\ serialIn' = IF serialIn = <<>> THEN serialIn ELSE Tail(serialIn)
    /\ rcall' = [rcall EXCEPT !.wrote = @ \cup {bufferIndex}]
    /\ bufferIndex' = bufferIndex + 1
    /\ rpc' = "receive_30"
    /\ UNCHANGED <<arrived, count>>
    /\ UNCHANGED servoVars

\* line 30: delay(3)
receive_30 ==
    /\ rpc = "receive_30"
    /\ rpc' = "receive_28"
    /\ UNCHANGED <<serialIn, arrived, readBuffer, bufferIndex, count, rcall>>
    /\ UNCHANGED servoVars

\* lines 32-34: *count = bufferIndex; return readBuffer
receive_32 ==
    /\ rpc = "receive_32"
    /\ count' = bufferIndex
    /\ rcall' = [rcall EXCEPT !.done = TRUE]
    /\ rpc' = "idle"
    /\ UNCHANGED <<serialIn, arrived, readBuffer, bufferIndex>>
    /\ UNCHANGED servoVars

(***************************************************************************)
(* The specification                                                       *)
(***************************************************************************)
\* power-on, after initDriver: rotationAngleDegree = 0 (Servos.h), no channel written
Init ==
    /\ rotationAngleDegree = 0
    /\ pwm = [ch \in Channels |-> NoTick]
    /\ pc = "idle"
    /\ angleDegree = 0
    /\ numberSteps90 = 0
    /\ ret = "return"
    /\ cur = NoCall
    /\ hist = <<>>
    /\ initialized = FALSE
    /\ lastWrite = NoWrite
    /\ run = <<>>
    \* nothing received, static readBuffer zeroed
    /\ serialIn = <<>>
    /\ arrived = 0
    /\ readBuffer = [i \in 0..(bufferSize - 1) |-> 0]
    /\ bufferIndex = 0
    /\ count = 0
    /\ rpc = "idle"
    /\ rcall = [calls |-> 0, n |-> 0, wrote |-> {}, done |-> FALSE]

Next ==
    \/ initPositions
    \/ initPositions_68
    \/ initPositions_72
    \/ rotateLeft
    \/ rotateRight
    \/ rotateTo
    \/ rotateTo_102
    \/ rotateTo_106
    \/ rotateTo_107
    \/ rotateTo_108
    \/ turnCube
    \/ turnCube_124
    \/ turnCube_125
    \/ turnCube_126
    \/ Return

Spec == Init /\ [][Next]_vars

\* the serial reader alone
NextSerial ==
    \/ SerialArrive
    \/ receive
    \/ receive_28
    \/ receive_29
    \/ receive_30
    \/ receive_32

SpecSerial == Init /\ [][NextSerial]_vars

(***************************************************************************)
(* Vocabulary of the properties                                            *)
(***************************************************************************)
ValidAngles == {0, 90, 180, 270}

\* the calibrated tick of Config.h for a rotation stop
CalibratedTick(t) ==
    CASE t = 0 -> ROTATE_SERVO_0
      [] t = 90 -> ROTATE_SERVO_90
      [] t = 180 -> ROTATE_SERVO_180
      [] t = 270 -> ROTATE_SERVO_270
      [] OTHER -> NoTick

\* the linear, non-wrapping number of 90-degree steps between two stops
LinearSteps(c, t) == IF c >= t THEN (c - t) \div 90 ELSE (t - c) \div 90

\* the setPWM events of a call, in order
Writes(c) == SelectSeq(c.events, LAMBDA e : e[1] = "setPWM")

RECURSIVE SumDelays(_)
SumDelays(s) ==
    IF s = <<>> THEN 0
    ELSE (IF s[1][1] = "delay" THEN s[1][2] ELSE 0) + SumDelays(Tail(s))

\* the wait a call consumed, in ms
TotalWait(c) == SumDelays(c.events)

\* a call has returned and none is running
Returned == pc = "idle" /\ Len(hist) >= 1

\* the most recent completed call, and the one before it
LastCall == hist[Len(hist)]
PrevCall == hist[Len(hist) - 1]

RotateWrite(t) == EvSetPWM(ROTATE_SERVO_CHANNEL, 0, CalibratedTick(t))

(***************************************************************************)
(* Properties                                                              *)
(***************************************************************************)
\* C1: from power-on, in every state any sequence of rotateLeft, rotateRight,
\* rotateTo(a) (a valid or not), turnCube and initPositions calls reaches,
\* rotationAngleDegree is one of 0, 90, 180, 270.
C1_AngleInRange == rotationAngleDegree \in ValidAngles

C1_Witness ==
    /\ pc = "idle" /\ Len(hist) >= 2
    /\ PrevCall.op = "rotateLeft" /\ PrevCall.angle0 = 0
    /\ LastCall.op = "rotateTo" /\ LastCall.arg = 360
    /\ rotationAngleDegree = 270

\* C2: a rotateTo(a) with a not in {0, 90, 180, 270} makes no write on any
\* channel, waits nothing, and leaves rotationAngleDegree and the last-written
\* ticks as they were.
C2_InvalidRejected ==
    (Returned /\ LastCall.op = "rotateTo" /\ LastCall.arg \notin ValidAngles) =>
        /\ Writes(LastCall) = <<>>
        /\ LastCall.events = <<>>
        /\ TotalWait(LastCall) = 0
        /\ LastCall.angle1 = LastCall.angle0
        /\ LastCall.pwm1 = LastCall.pwm0
        /\ rotationAngleDegree = LastCall.angle0
        /\ pwm = LastCall.pwm0

C2_Witness ==
    /\ Returned /\ LastCall.op = "rotateTo" /\ LastCall.arg = 45
    /\ LastCall.angle0 = 180
    /\ LastCall.pwm0[ROTATE_SERVO_CHANNEL] = ROTATE_SERVO_180

\* C3: rotateTo(t) from angle c, both in {0, 90, 180, 270}, makes exactly one
\* write, of the calibrated tick of t to the rotate channel, waits
\* (|c - t| / 90) * ROTATE_DELAY_MS, and ends with rotationAngleDegree = t;
\* from 0, rotateTo(180) waits 2 * ROTATE_DELAY_MS and writes ROTATE_SERVO_180.
C3_RotateTo ==
    (Returned /\ LastCall.op = "rotateTo" /\ LastCall.arg \in ValidAngles) =>
        /\ Writes(LastCall) = <<RotateWrite(LastCall.arg)>>
        /\ TotalWait(LastCall) = LinearSteps(LastCall.angle0, LastCall.arg) * ROTATE_DELAY_MS
        /\ LastCall.angle1 = LastCall.arg
        /\ rotationAngleDegree = LastCall.arg
        /\ (LastCall.angle0 = 0 /\ LastCall.arg = 180) =>
              /\ TotalWait(LastCall) = 2 * ROTATE_DELAY_MS
              /\ pwm[ROTATE_SERVO_CHANNEL] = ROTATE_SERVO_180
        /\ (LastCall.angle0 = 0 /\ LastCall.arg = 270) => TotalWait(LastCall) = 3 * ROTATE_DELAY_MS
        /\ (LastCall.angle0 = 270 /\ LastCall.arg = 0) => TotalWait(LastCall) = 3 * ROTATE_DELAY_MS

C3_Witness ==
    /\ Returned /\ Len(hist) >= 2
    /\ PrevCall.op = "rotateTo" /\ PrevCall.angle0 = 0 /\ PrevCall.arg = 270
    /\ LastCall.op = "rotateTo" /\ LastCall.angle0 = 270 /\ LastCall.arg = 0

\* C4: the second of two consecutive rotateTo(x), x valid, waits nothing, leaves
\* rotationAngleDegree = x and writes the calibrated tick of x to the rotate
\* channel once more (one write, the value the channel already holds).
C4_Idempotent ==
    (/\ Returned /\ Len(hist) >= 2
     /\ PrevCall.op = "rotateTo" /\ LastCall.op = "rotateTo"
     /\ PrevCall.arg \in ValidAngles /\ LastCall.arg = PrevCall.arg) =>
        /\ TotalWait(LastCall) = 0
        /\ LastCall.angle0 = LastCall.arg
        /\ LastCall.angle1 = LastCall.arg
        /\ Writes(LastCall) = <<RotateWrite(LastCall.arg)>>
        /\ Writes(LastCall) = Writes(PrevCall)
        /\ LastCall.pwm1 = LastCall.pwm0

C4_Witness ==
    /\ Returned /\ Len(hist) >= 2
    /\ PrevCall.op = "rotateTo" /\ PrevCall.arg = 180 /\ PrevCall.angle0 = 0
    /\ LastCall.op = "rotateTo" /\ LastCall.arg = 180

\* C5: rotateLeft from 90, 180 or 270 ends 90 lower after a wait of one
\* ROTATE_DELAY_MS; from 0 it ends at 270 after a wait of 3 * ROTATE_DELAY_MS.
C5_RotateLeft ==
    (Returned /\ LastCall.op = "rotateLeft") =>
        /\ LastCall.angle0 \in {90, 180, 270} =>
              /\ LastCall.angle1 = LastCall.angle0 - 90
              /\ TotalWait(LastCall) = 1 * ROTATE_DELAY_MS
        /\ LastCall.angle0 = 0 =>
              /\ LastCall.angle1 = 270
              /\ TotalWait(LastCall) = 3 * ROTATE_DELAY_MS

C5_Witness ==
    /\ Returned /\ Len(hist) >= 2
    /\ PrevCall.op = "rotateLeft" /\ PrevCall.angle0 = 0
    /\ LastCall.op = "rotateLeft" /\ LastCall.angle0 = 270

\* C6: rotateRight from 0, 90 or 180 ends 90 higher and writes the calibrated
\* tick of that angle; from 270 it ends at 0 and writes ROTATE_SERVO_0.
C6_RotateRight ==
    (Returned /\ LastCall.op = "rotateRight") =>
        /\ LastCall.angle0 \in {0, 90, 180} =>
              /\ LastCall.angle1 = LastCall.angle0 + 90
              /\ Writes(LastCall) = <<RotateWrite(LastCall.angle0 + 90)>>
        /\ LastCall.angle0 = 270 =>
              /\ LastCall.angle1 = 0
              /\ Writes(LastCall) = <<EvSetPWM(ROTATE_SERVO_CHANNEL, 0, ROTATE_SERVO_0)>>

C6_Witness ==
    /\ Returned /\ Len(hist) >= 2
    /\ PrevCall.op = "rotateRight" /\ PrevCall.angle0 = 180
    /\ LastCall.op = "rotateRight" /\ LastCall.angle0 = 270

\* C7 as stated: rotateRight from 270 ends at 0 and waits one ROTATE_DELAY_MS.
C7_Original ==
    (Returned /\ LastCall.op = "rotateRight" /\ LastCall.angle0 = 270) =>
        /\ LastCall.angle1 = 0
        /\ TotalWait(LastCall) = 1 * ROTATE_DELAY_MS

\* C7 amended: rotateRight from 270 ends at 0 by the wraparound rule, in one
\* rotateTo(0) with one write, and waits 3 * ROTATE_DELAY_MS, the linear
\* distance from 270 to 0.
C7_Amended ==
    (Returned /\ LastCall.op = "rotateRight" /\ LastCall.angle0 = 270) =>
        /\ LastCall.angle1 = 0
        /\ Len(Writes(LastCall)) = 1
        /\ TotalWait(LastCall) = 3 * ROTATE_DELAY_MS

C7_Witness ==
    /\ Returned /\ LastCall.op = "rotateRight" /\ LastCall.angle0 = 270
    /\ rotationAngleDegree = 0
    /\ TotalWait(LastCall) > ROTATE_DELAY_MS

\* C8: turnCube never changes rotationAngleDegree and never writes the rotate
\* channel: both are, during and after the call, what they were before it.
C8_TurnCubeFrame ==
    /\ cur.op = "turnCube" =>
          /\ rotationAngleDegree = cur.angle0
          /\ pwm[ROTATE_SERVO_CHANNEL] = cur.pwm0[ROTATE_SERVO_CHANNEL]
    /\ (Returned /\ LastCall.op = "turnCube") =>
          /\ LastCall.angle1 = LastCall.angle0
          /\ LastCall.pwm1[ROTATE_SERVO_CHANNEL] = LastCall.pwm0[ROTATE_SERVO_CHANNEL]
          /\ \A i \in 1..Len(Writes(LastCall)) : Writes(LastCall)[i][2] # ROTATE_SERVO_CHANNEL

C8_Witness ==
    /\ Returned /\ LastCall.op = "turnCube"
    /\ LastCall.angle0 = 180
    /\ LastCall.pwm0[ROTATE_SERVO_CHANNEL] = ROTATE_SERVO_180
    /\ Len(Writes(LastCall)) = 2

\* C9: initPositions, from any angle and any state of the turn channel, ends
\* with rotationAngleDegree = 0, TURN_SERVO_MIN last written to the turn channel
\* and ROTATE_SERVO_0 last written to the rotate channel.
C9_InitPositions ==
    (Returned /\ LastCall.op = "initPositions") =>
        /\ LastCall.angle1 = 0
        /\ rotationAngleDegree = 0
        /\ pwm[TURN_SERVO_CHANNEL] = TURN_SERVO_MIN
        /\ pwm[ROTATE_SERVO_CHANNEL] = ROTATE_SERVO_0

C9_Witness ==
    /\ Returned /\ LastCall.op = "initPositions"
    /\ LastCall.angle0 = 270
    /\ LastCall.pwm0[TURN_SERVO_CHANNEL] = NoTick

\* C10: once initPositions has returned, whenever no operation is running the
\* tick last written to the rotate channel is the calibrated tick of
\* rotationAngleDegree; and no call that wrote the rotate channel returned
\* with rotationAngleDegree not matching that write.
C10_PositionConsistent ==
    /\ (pc = "idle" /\ initialized) =>
          pwm[ROTATE_SERVO_CHANNEL] = CalibratedTick(rotationAngleDegree)
    /\ \A i \in 1..Len(hist) :
          (\E j \in 1..Len(Writes(hist[i])) : Writes(hist[i])[j][2] = ROTATE_SERVO_CHANNEL) =>
              hist[i].pwm1[ROTATE_SERVO_CHANNEL] = CalibratedTick(hist[i].angle1)

C10_Witness ==
    /\ pc = "idle" /\ initialized /\ Len(hist) >= 2
    /\ PrevCall.op = "rotateTo" /\ PrevCall.arg = 180 /\ PrevCall.angle0 = 0
    /\ LastCall.op = "rotateTo" /\ LastCall.arg = 315
    /\ rotationAngleDegree = 180

\* the settle duration of a channel
SettleOf(ch) == IF ch = TURN_SERVO_CHANNEL THEN TURN_DELAY_MS ELSE ROTATE_DELAY_MS

\* a step that makes a setPWM
WriteStep ==
    /\ Len(cur'.events) = Len(cur.events) + 1
    /\ cur'.events[Len(cur'.events)][1] = "setPWM"

\* the write w, if it changed the tick of its channel, has had its settle wait
Settled(w) == (w.written /\ w.changed) => w.waited >= SettleOf(w.ch)

C12_TurnCubeSequence ==
    (Returned /\ LastCall.op = "turnCube") =>
        /\ LastCall.events = <<EvSetPWM(TURN_SERVO_CHANNEL, 0, TURN_SERVO_MAX), EvDelay(TURN_DELAY_MS),
                               EvSetPWM(TURN_SERVO_CHANNEL, 0, TURN_SERVO_MIN), EvDelay(TURN_DELAY_MS)>>
        /\ TotalWait(LastCall) = 2 * TURN_DELAY_MS
        /\ LastCall.pwm1[TURN_SERVO_CHANNEL] = TURN_SERVO_MIN
        /\ pwm[TURN_SERVO_CHANNEL] = TURN_SERVO_MIN

C12_Witness ==
    /\ Returned /\ Len(hist) >= 2
    /\ PrevCall.op = "turnCube" /\ PrevCall.pwm0[TURN_SERVO_CHANNEL] = NoTick
    /\ LastCall.op = "turnCube" /\ LastCall.pwm0[TURN_SERVO_CHANNEL] = TURN_SERVO_MIN
    /\ LastCall.angle0 = 0

\* the events of initPositions from angle c, with a last wait of k * ROTATE_DELAY_MS
InitEvents(c, k) ==
    <<EvSetPWM(TURN_SERVO_CHANNEL, 0, TURN_SERVO_MIN), EvDelay(TURN_DELAY_MS),
      EvSetPWM(ROTATE_SERVO_CHANNEL, 0, ROTATE_SERVO_0), EvDelay((c \div 90) * ROTATE_DELAY_MS),
      EvAssign(0), EvDelay(k * ROTATE_DELAY_MS)>>

\* C13 as stated: initPositions from angle c writes hold, waits TURN_DELAY_MS,
\* does rotateTo(0) and waits one more ROTATE_DELAY_MS, in total
\* TURN_DELAY_MS + (c / 90) * ROTATE_DELAY_MS + 1 * ROTATE_DELAY_MS.
C13_Original ==
    (Returned /\ LastCall.op = "initPositions") =>
        /\ LastCall.events = InitEvents(LastCall.angle0, 1)
        /\ TotalWait(LastCall) =
              TURN_DELAY_MS + (LastCall.angle0 \div 90) * ROTATE_DELAY_MS + 1 * ROTATE_DELAY_MS

\* C13 amended: the same order, but the additional wait after rotateTo(0) is
\* 2 * ROTATE_DELAY_MS, in total
\* TURN_DELAY_MS + (c / 90) * ROTATE_DELAY_MS + 2 * ROTATE_DELAY_MS.
C13_Amended ==
    (Returned /\ LastCall.op = "initPositions") =>
        /\ LastCall.events = InitEvents(LastCall.angle0, 2)
        /\ TotalWait(LastCall) =
              TURN_DELAY_MS + (LastCall.angle0 \div 90) * ROTATE_DELAY_MS + 2 * ROTATE_DELAY_MS

C13_Witness ==
    /\ Returned /\ LastCall.op = "initPositions"
    /\ LastCall.angle0 = 180
    /\ TotalWait(LastCall) = 3150

\* C14: in a rotateTo(t) that passes the guard the order is write, wait,
\* assignment: after the write and throughout the wait rotationAngleDegree is
\* what it was before the call, and it becomes t only once the wait is over.
C14_WriteWaitAssign ==
    /\ pc = "rotateTo_107" =>
          /\ rotationAngleDegree = cur.angle0
          /\ cur.events[Len(cur.events)] = RotateWrite(angleDegree)
    /\ pc = "rotateTo_108" =>
          /\ rotationAngleDegree = cur.angle0
          /\ cur.events[Len(cur.events)] = EvDelay(LinearSteps(cur.angle0, angleDegree) * ROTATE_DELAY_MS)
          /\ cur.events[Len(cur.events) - 1] = RotateWrite(angleDegree)
    /\ (Returned /\ LastCall.op = "rotateTo" /\ LastCall.arg \in ValidAngles) =>
          LastCall.events = <<RotateWrite(LastCall.arg),
                              EvDelay(LinearSteps(LastCall.angle0, LastCall.arg) * ROTATE_DELAY_MS),
                              EvAssign(LastCall.arg)>>

C14_Witness ==
    /\ pc = "rotateTo_108" /\ cur.op = "rotateTo"
    /\ angleDegree = 180 /\ rotationAngleDegree = 0
    /\ pwm[ROTATE_SERVO_CHANNEL] = ROTATE_SERVO_180
    /\ cur.events[Len(cur.events)] = EvDelay(2 * ROTATE_DELAY_MS)

\* a setPWM event stays inside the calibration table
CalibratedWrite(e) ==
    /\ e[2] \in {TURN_SERVO_CHANNEL, ROTATE_SERVO_CHANNEL}
    /\ e[4] \in 0..4095
    /\ e[2] = ROTATE_SERVO_CHANNEL =>
          e[4] \in {ROTATE_SERVO_0, ROTATE_SERVO_90, ROTATE_SERVO_180, ROTATE_SERVO_270}
    /\ e[2] = TURN_SERVO_CHANNEL => e[4] \in {TURN_SERVO_MIN, TURN_SERVO_MAX}

CalibratedCall(c) == \A i \in 1..Len(Writes(c)) : CalibratedWrite(Writes(c)[i])

\* C15: every setPWM of every operation goes to the turn or the rotate
\* channel with a tick in 0..4095 of the calibration table: one of the four
\* rotation ticks on the rotate channel, with the index angleDegree / 90 in
\* 0..3, and TURN_SERVO_MIN or TURN_SERVO_MAX on the turn channel.
C15_CalibratedWrites ==
    /\ CalibratedCall(cur)
    /\ \A i \in 1..Len(hist) : CalibratedCall(hist[i])
    /\ pc = "rotateTo_106" => (angleDegree \div 90) \in 0..3
    /\ \A ch \in Channels : pwm[ch] = NoTick \/ pwm[ch] \in 0..4095

C15_Witness ==
    /\ Returned /\ Len(hist) >= 2
    /\ PrevCall.op = "rotateTo" /\ PrevCall.arg = 270
    /\ LastCall.op = "turnCube"
    /\ pwm[ROTATE_SERVO_CHANNEL] = ROTATE_SERVO_270

\* rotateRight then rotateLeft, or rotateLeft then rotateRight, have just returned
InversePair ==
    /\ Returned /\ Len(hist) >= 2
    /\ \/ PrevCall.op = "rotateRight" /\ LastCall.op = "rotateLeft"
       \/ PrevCall.op = "rotateLeft" /\ LastCall.op = "rotateRight"

\* C16 as stated: after such a pair rotationAngleDegree and the rotate channel
\* are what they were before the pair.
C16_Original ==
    InversePair =>
        /\ LastCall.angle1 = PrevCall.angle0
        /\ LastCall.pwm1[ROTATE_SERVO_CHANNEL] = PrevCall.pwm0[ROTATE_SERVO_CHANNEL]

\* C16 amended: after such a pair rotationAngleDegree is what it was before
\* the pair, and so is the tick of the rotate channel whenever the channel had
\* been written before the pair; a channel never written before ends at the
\* calibrated tick of that angle.
C16_Amended ==
    InversePair =>
        /\ LastCall.angle1 = PrevCall.angle0
        /\ rotationAngleDegree = PrevCall.angle0
        /\ PrevCall.pwm0[ROTATE_SERVO_CHANNEL] # NoTick =>
              LastCall.pwm1[ROTATE_SERVO_CHANNEL] = PrevCall.pwm0[ROTATE_SERVO_CHANNEL]
        /\ PrevCall.pwm0[ROTATE_SERVO_CHANNEL] = NoTick =>
              LastCall.pwm1[ROTATE_SERVO_CHANNEL] = CalibratedTick(PrevCall.angle0)

C16_Witness ==
    /\ InversePair
    /\ PrevCall.op = "rotateRight" /\ PrevCall.angle0 = 270
    /\ PrevCall.pwm0[ROTATE_SERVO_CHANNEL] = ROTATE_SERVO_270
    /\ LastCall.angle0 = 0

RECURSIVE SumWaits(_)
SumWaits(r) == IF r = <<>> THEN 0 ELSE TotalWait(r[1]) + SumWaits(Tail(r))

\* the last four calls of the run
LastFour == SubSeq(run, Len(run) - 3, Len(run))

\* C17: four consecutive rotateRight, or four consecutive rotateLeft, bring
\* rotationAngleDegree back to where it was and wait 6 * ROTATE_DELAY_MS in
\* total, from every angle.
C17_FourRotations ==
    (pc = "idle" /\ Len(run) >= 4) =>
        /\ \A i \in 1..4 : LastFour[i].op = LastFour[1].op
        /\ LastFour[4].angle1 = LastFour[1].angle0
        /\ rotationAngleDegree = LastFour[1].angle0
        /\ SumWaits(LastFour) = 6 * ROTATE_DELAY_MS

C17_Witness ==
    /\ pc = "idle" /\ Len(run) >= 4
    /\ LastFour[1].op = "rotateLeft"
    /\ LastFour[1].angle0 = 180
    /\ rotationAngleDegree = 180

Min(a, b) == IF a <= b THEN a ELSE b

\* receive has returned
Received == rpc = "idle" /\ rcall.done

\* number of bytes read before the last call of receive
ReadBefore == arrived - Len(serialIn) - count

\* the buffer holds the bytes in arrival order, the unread ones stay in the port
InArrivalOrder ==
    /\ \A i \in 0..(count - 1) : readBuffer[i] = ToChar(Byte(ReadBefore + i + 1))
    /\ \A j \in 1..Len(serialIn) : serialIn[j] = Byte(ReadBefore + count + j)

\* C18 as stated: with n bytes pending at the call, receive returns
\* *count = min(n, 32), 0 when nothing is pending, writes no index beyond 31,
\* reads in arrival order and leaves the bytes beyond the 32nd in the port.
C18_Original ==
    Received =>
        /\ count = Min(rcall.n, bufferSize)
        /\ rcall.n = 0 => count = 0
        /\ \A i \in rcall.wrote : i <= 31
        /\ InArrivalOrder

\* C18 amended: receive returns *count = min(n + a, 32), for n bytes pending at
\* the call and a bytes that arrive before the last test of line 28 (so at
\* least min(n, 32)); it writes exactly the indexes 0..*count-1, none beyond
\* 31, reads in arrival order and leaves every unread byte in the port.
C18_Amended ==
    /\ rpc = "receive_32" =>
          /\ bufferIndex = Min(Len(serialIn) + bufferIndex, bufferSize)
          /\ bufferIndex >= Min(rcall.n, bufferSize)
    /\ \A i \in rcall.wrote : i <= 31
    /\ Received =>
          /\ count = bufferIndex
          /\ count >= Min(rcall.n, bufferSize)
          /\ count <= bufferSize
          /\ rcall.wrote = 0..(count - 1)
          /\ InArrivalOrder

C18_Witness ==
    /\ Received
    /\ rcall.n >= 33
    /\ count = 32
    /\ 31 \in rcall.wrote
    /\ Len(serialIn) >= 1

\* the angles whose calibrated tick is t
AnglesOf(t) == {a \in ValidAngles : PcaTicks(a) = t}

\* C19: the rotation ticks increase strictly with the angle, so the tick last
\* written to the rotate channel belongs to exactly one angle, which is
\* rotationAngleDegree whenever no operation is running.
C19_TicksIncreasing ==
    /\ \A i \in 1..(Len(rotationTicks) - 1) : rotationTicks[i] < rotationTicks[i + 1]
    /\ \A a, b \in ValidAngles : a < b => PcaTicks(a) < PcaTicks(b)
    /\ pwm[ROTATE_SERVO_CHANNEL] # NoTick => Cardinality(AnglesOf(pwm[ROTATE_SERVO_CHANNEL])) = 1
    /\ (pc = "idle" /\ pwm[ROTATE_SERVO_CHANNEL] # NoTick) =>
          AnglesOf(pwm[ROTATE_SERVO_CHANNEL]) = {rotationAngleDegree}

C19_Witness ==
    /\ Returned /\ LastCall.op = "rotateRight"
    /\ pwm[ROTATE_SERVO_CHANNEL] = ROTATE_SERVO_180
    /\ AnglesOf(ROTATE_SERVO_180) = {180}
    /\ rotationAngleDegree = 180

====
